---- MODULE Spec2Model ----
(***************************************************************************)
(* DataPreprocessor (ml_model/src/data/data_preprocessing.py): the owned   *)
(* pandas DataFrame self.df, the preprocessing steps that filter, cast and *)
(* scale it, the orchestrating run_preprocessing_pipeline, the accessor    *)
(* get, the static static_cast_types and train_test_split.                 *)
(*                                                                         *)
(* A DataFrame is a record                                                 *)
(*   [columns : column names in order, category : the categories of each   *)
(*    column of category dtype, index : the row labels, rows : one         *)
(*    function column -> cell per row].                                    *)
(* A cell is a record [kind, n, v]:                                        *)
(*   "float"  the float n              "int"    the Python int n           *)
(*   "numstr" the string str(n)        "text"   a non-numeric string no. n *)
(*   "nan"    missing (None / NaN)                                         *)
(*   "scaled" the float n / sqrt(v) (n / 1 when v = 0), which is what      *)
(*            StandardScaler writes: (x - mean) / std, kept exact.         *)
(***************************************************************************)
EXTENDS Integers, Sequences, FiniteSets, TLC

VARIABLES
    df,        \* self.df, the owned DataFrame
    ext,       \* a DataFrame the caller holds (NoData when none)
    aliased,   \* TRUE when ext is the very object self.df refers to
    pc,        \* "idle", a position inside run_preprocessing_pipeline, "failed"
    flags,     \* the arguments of the running run_preprocessing_pipeline
    trace,     \* the steps the running / last pipeline run has made, with thresholds
    op,        \* the last public call made on the preprocessor
    arg,       \* its threshold argument (0 when it has none)
    df0,       \* self.df as it was when the last public call started
    split,     \* what the last call returned if it was train_test_split, else NoSplit
    split0,    \* split as it was when the last public call started
    cleaned    \* TRUE once _handle_missing_and_duplicated_values has run

vars == <<df, ext, aliased, pc, flags, trace, op, arg, df0, split, split0, cleaned>>

----------------------------------------------------------------------------
(* Bounds of the model *)

MaxRows == 2
MaxCleanRows == 3
MaxSplitRows == 6

----------------------------------------------------------------------------
(* Configuration: _common.misc.variables *)

NUMERIC_FEATS == <<"size", "rooms", "floor">>
CATEGORICAL_FEATS == <<"status", "property_type", "year_built", "property_condition">>
FEAT_COLS == NUMERIC_FEATS \o CATEGORICAL_FEATS
TARGET_COL == "price"

\* The columns of data_main / data_staging: the features, the target and
\* an identifier column that is no feature.
TableColumns == <<"url", "price", "size", "rooms", "floor", "status",
                  "property_type", "year_built", "property_condition">>

Range(s) == {s[i] : i \in DOMAIN s}

----------------------------------------------------------------------------
(* Cells *)

Val(k, n, v) == [kind |-> k, n |-> n, v |-> v]
Float(n) == Val("float", n, 0)
PyInt(n) == Val("int", n, 0)
NumStr(n) == Val("numstr", n, 0)
Text(k) == Val("text", k, 0)
NaN == Val("nan", 0, 0)
Scaled(d, v) == Val("scaled", d, v)

\* "brak informacji"
BRAK_INFORMACJI == Text(0)

isna(x) == x.kind = "nan"
notna(x) == ~isna(x)

IsString(x) == x.kind \in {"numstr", "text"}

\* Python's ==, with NaN taken equal to NaN as pandas' duplicated() does:
\* 1 == 1.0, "1" != 1.
SameValue(x, y) ==
    IF x.kind \in {"float", "int"} /\ y.kind \in {"float", "int"}
    THEN x.n = y.n
    ELSE x = y

\* x < t for a number x and a threshold t > 0 (a scaled cell is n / sqrt(v)).
LessThan(x, t) ==
    IF x.kind = "scaled"
    THEN (x.n < 0) \/ (x.v = 0 /\ x.n < t) \/ (x.v > 0 /\ (x.n * x.n) \div x.v < t * t)
    ELSE x.n < t

----------------------------------------------------------------------------
(* DataFrames *)

\* No column has category dtype.
NoCategories == [c \in {} |-> {}]

NoData ==
    [columns |-> <<>>, category |-> NoCategories, index |-> <<>>, rows |-> <<>>]

Frame(cols, rows) ==
    [columns |-> cols, category |-> NoCategories,
     index |-> [i \in 1..Len(rows) |-> i - 1], rows |-> rows]

NRows(d) == Len(d.rows)

\* A column holding only floats and NaN has dtype float64; any other is object.
IsFloatColumn(d, col) ==
    \A i \in 1..NRows(d) : d.rows[i][col].kind \in {"float", "nan", "scaled"}

RECURSIVE KeptFrom(_, _)
KeptFrom(mask, i) ==
    IF i > Len(mask) THEN <<>>
    ELSE (IF mask[i] THEN <<i>> ELSE <<>>) \o KeptFrom(mask, i + 1)

\* d.iloc[pos]: the rows at the positions pos, in that order.
ILoc(d, pos) ==
    [d EXCEPT !.index = [j \in 1..Len(pos) |-> d.index[pos[j]]],
              !.rows = [j \in 1..Len(pos) |-> d.rows[pos[j]]]]

\* d[mask]: the rows whose mask is True, in their order.
BoolIndex(d, mask) == ILoc(d, KeptFrom(mask, 1))

\* d[col] = cells, one cell per row.
SetColumn(d, col, cells) ==
    [d EXCEPT !.rows = [i \in 1..NRows(d) |-> [d.rows[i] EXCEPT ![col] = cells[i]]]]

\* d[cols]: the projection onto the columns cols, in that order.
Project(d, cols) ==
    [d EXCEPT !.columns = cols,
              !.category = [c \in DOMAIN d.category \cap Range(cols) |-> d.category[c]],
              !.rows = [i \in 1..NRows(d) |-> [c \in Range(cols) |-> d.rows[i][c]]]]

\* The outcome of a step on the DataFrame object self.df referred to when it
\* started: ok (FALSE when it raised), d (what self.df refers to afterwards),
\* old (the content of the object it started on), same (self.df still refers
\* to that object: the step assigned into it and did not rebind self.df).
InPlace(d) == [ok |-> TRUE, d |-> d, old |-> d, same |-> TRUE]
Rebound(d, old) == [ok |-> TRUE, d |-> d, old |-> old, same |-> FALSE]
Raises(d) == [ok |-> FALSE, d |-> d, old |-> d, same |-> TRUE]

----------------------------------------------------------------------------
(* pandas operations the steps use *)

\* d[col].fillna(value, inplace=True)
fillna(d, col, value) ==
    SetColumn(d, col, [i \in 1..NRows(d) |->
                         IF isna(d.rows[i][col]) THEN value ELSE d.rows[i][col]])

RowsEqual(r1, r2) == \A c \in DOMAIN r1 : SameValue(r1[c], r2[c])

\* d.drop_duplicates(): a row equal on all columns to an earlier row goes.
drop_duplicates(d) ==
    BoolIndex(d, [i \in 1..NRows(d) |->
                    ~\E j \in 1..(i - 1) : RowsEqual(d.rows[j], d.rows[i])])

\* pd.to_numeric(x, errors="coerce"): NaN for what is no number.
to_numeric(x) ==
    CASE x.kind = "numstr" -> Float(x.n)
      [] x.kind = "text" -> NaN
      [] OTHER -> x

\* float(x), for an x that float() accepts.
AsFloat(x) == IF x.kind \in {"numstr", "int"} THEN Float(x.n) ELSE x

\* d[col].astype(float) raises ValueError on a string that is no number.
CanFloat(d, col) == \A i \in 1..NRows(d) : d.rows[i][col].kind # "text"

astype_float(d, col) ==
    [SetColumn(d, col, [i \in 1..NRows(d) |-> AsFloat(d.rows[i][col])])
        EXCEPT !.category = [c \in DOMAIN d.category \ {col} |-> d.category[c]]]

\* d[col] < t raises TypeError on a str cell and on an unordered category.
CanCompare(d, col) ==
    /\ col \notin DOMAIN d.category
    /\ \A i \in 1..NRows(d) : ~IsString(d.rows[i][col])

\* FilterBelow written as d[~(d[col] >= t)]: a missing cell stays.
FilterBelowOrMissing(d, col, t) ==
    BoolIndex(d, [i \in 1..NRows(d) |->
                    isna(d.rows[i][col]) \/ LessThan(d.rows[i][col], t)])

\* d[d[col] < t]: a missing cell compares False.
FilterBelow(d, col, t) ==
    BoolIndex(d, [i \in 1..NRows(d) |->
                    notna(d.rows[i][col]) /\ LessThan(d.rows[i][col], t)])

----------------------------------------------------------------------------
(* The steps of DataPreprocessor *)

\* The value rooms.fillna(1) writes: 1.0 into a float64 column, 1 into an
\* object column.
RoomsDefault(d) == IF IsFloatColumn(d, "rooms") THEN Float(1) ELSE PyInt(1)

\* The columns _handle_missing_and_duplicated_values fills, in its order.
FillColumns ==
    <<"floor", "status", "property_type", "rooms", "year_built", "property_condition">>

FillValue(d, col) == IF col = "rooms" THEN RoomsDefault(d) ELSE BRAK_INFORMACJI

\* fillna on a category column raises when the value is no category of it.
CanFill(d, col, value) ==
    col \notin DOMAIN d.category \/ value \in d.category[col]

\* The fillna statements in turn: one that raises leaves the earlier ones done.
RECURSIVE FillMissing(_, _)
FillMissing(d, cols) ==
    IF cols = <<>> THEN InPlace(d)
    ELSE IF CanFill(d, Head(cols), FillValue(d, Head(cols)))
         THEN FillMissing(fillna(d, Head(cols), FillValue(d, Head(cols))), Tail(cols))
         ELSE Raises(d)

\* The cleaning with the duplicates dropped before the missing cells are
\* filled.
handle_missing_duplicates_first(d) ==
    LET d0 == drop_duplicates(d)
        r == FillMissing(d0, FillColumns)
        d8 == BoolIndex(r.d, [i \in 1..NRows(r.d) |-> notna(r.d.rows[i]["price"])])
        d9 == BoolIndex(d8, [i \in 1..NRows(d8) |-> notna(d8.rows[i]["size"])])
    IN  IF r.ok THEN Rebound(d9, r.d) ELSE r

handle_missing_and_duplicated_values(d) ==
    LET r == FillMissing(d, FillColumns)
        d7 == drop_duplicates(r.d)
        d8 == BoolIndex(d7, [i \in 1..NRows(d7) |-> notna(d7.rows[i]["price"])])
        d9 == BoolIndex(d8, [i \in 1..NRows(d8) |-> notna(d8.rows[i]["size"])])
    IN  IF r.ok THEN Rebound(d9, d7) ELSE r

\* _process_price with price <= filter_price for its filter.
process_price_inclusive(d, filter_price) ==
    LET mask == [i \in 1..NRows(d) |-> notna(to_numeric(d.rows[i]["price"]))]
        d1 == BoolIndex(d, mask)
        d2 == astype_float(d1, "price")
    IN  IF filter_price > 0
        THEN Rebound(FilterBelow(d2, "price", filter_price + 1), d)
        ELSE Rebound(d2, d)

process_price(d, filter_price) ==
    LET mask == [i \in 1..NRows(d) |-> notna(to_numeric(d.rows[i]["price"]))]
        d1 == BoolIndex(d, mask)
        d2 == astype_float(d1, "price")
    IN  IF filter_price > 0
        THEN Rebound(FilterBelow(d2, "price", filter_price), d)
        ELSE Rebound(d2, d)

process_size(d, filter_size) ==
    IF filter_size > 0
    THEN IF CanCompare(d, "size")
         THEN Rebound(FilterBelow(d, "size", filter_size), d)
         ELSE Raises(d)
    ELSE InPlace(d)

process_floor(d, filter_floor) ==
    IF filter_floor > 0
    THEN IF CanCompare(d, "floor")
         THEN Rebound(FilterBelow(d, "floor", filter_floor), d)
         ELSE Raises(d)
    ELSE InPlace(d)

\* The loop over the numeric columns: each is assigned in turn, so a column
\* that raises leaves the ones before it cast.
RECURSIVE CastNumeric(_, _)
CastNumeric(d, cols) ==
    IF cols = <<>> THEN InPlace(d)
    ELSE IF CanFloat(d, Head(cols))
         THEN CastNumeric(astype_float(d, Head(cols)), Tail(cols))
         ELSE Raises(d)

\* The loop over the categorical columns: astype("category") keeps the cells
\* and takes the values present for categories; a column that has category
\* dtype already keeps its categories.
CastCategorical(d, cols) ==
    [d EXCEPT !.category =
        [c \in DOMAIN d.category \cup Range(cols) |->
            IF c \in DOMAIN d.category THEN d.category[c]
            ELSE {d.rows[i][c] : i \in {k \in 1..NRows(d) : notna(d.rows[k][c])}}]]

cast_types(d) ==
    LET r == CastNumeric(d, NUMERIC_FEATS)
    IN  IF r.ok THEN InPlace(CastCategorical(r.d, CATEGORICAL_FEATS)) ELSE r

static_cast_types(d) ==
    LET r == CastNumeric(d, NUMERIC_FEATS)
    IN  IF r.ok THEN InPlace(CastCategorical(r.d, CATEGORICAL_FEATS)) ELSE r

\* _select_features keeping the wanted columns in the order the frame has.
select_features_in_frame_order(d) ==
    Rebound(Project(d, SelectSeq(d.columns,
                                 LAMBDA c : c \in Range(FEAT_COLS) \cup {TARGET_COL})), d)

select_features(d) == Rebound(Project(d, FEAT_COLS \o <<TARGET_COL>>), d)

\* The positions of the cells of a column that are not missing.
Present(d, col) == {i \in 1..NRows(d) : notna(d.rows[i][col])}

RECURSIVE SumOver(_, _, _)
SumOver(d, col, I) ==
    IF I = {} THEN 0
    ELSE LET i == CHOOSE k \in I : TRUE
         IN  d.rows[i][col].n + SumOver(d, col, I \ {i})

RECURSIVE SumSquaresOver(_, _, _)
SumSquaresOver(d, col, I) ==
    IF I = {} THEN 0
    ELSE LET i == CHOOSE k \in I : TRUE
         IN  d.rows[i][col].n * d.rows[i][col].n + SumSquaresOver(d, col, I \ {i})

\* StandardScaler().fit_transform on one column: with m present cells of sum S
\* and sum of squares Q, mean = S / m and var = (m Q - S^2) / m^2, so that
\* (x - mean) / std = (m x - S) / sqrt(m Q - S^2), and x - mean = 0 when the
\* variance is 0 (the scaler then divides by 1). Missing cells stay missing.
\* The numerators of cells one fit has scaled stand for the cells: a common
\* factor changes neither side. A column that has mean 0 and variance 1
\* already is left as it is.
ScaleColumn(d, col) ==
    LET I == Present(d, col)
        m == Cardinality(I)
        S == SumOver(d, col, I)
        Q == SumSquaresOver(d, col, I)
        V == m * Q - S * S
        standard == \A i \in I : /\ d.rows[i][col].kind = "scaled"
                                  /\ S = 0
                                  /\ Q = m * d.rows[i][col].v
    IN  IF standard THEN d
        ELSE SetColumn(d, col, [i \in 1..NRows(d) |->
                 IF isna(d.rows[i][col]) THEN d.rows[i][col]
                 ELSE IF V = 0 THEN Scaled(0, 0)
                 ELSE Scaled(m * d.rows[i][col].n - S, V)])

RECURSIVE ScaleColumns(_, _)
ScaleColumns(d, cols) ==
    IF cols = <<>> THEN d ELSE ScaleColumns(ScaleColumn(d, Head(cols)), Tail(cols))

\* fit_transform raises ValueError on an empty frame and on a string that is
\* no number; it assigns nothing then.
standardize(d) ==
    IF \/ NRows(d) = 0
       \/ \E c \in Range(NUMERIC_FEATS) : ~CanFloat(d, c)
    THEN Raises(d)
    ELSE InPlace(ScaleColumns(d, NUMERIC_FEATS))

----------------------------------------------------------------------------
(* train_test_split *)

FILTER_PRICE == 17500000
FILTER_SIZE == 1000
FILTER_FLOOR == 30
TEST_SIZE_PERCENT == 20
RANDOM_STATE == 42

\* A stand-in for numpy's generator: what the split needs of it is that the
\* seed and the length decide the permutation.
NextRandom(s) == (75 * s + 74) % 65537

RECURSIVE Shuffle(_, _, _)
Shuffle(p, i, s) ==
    IF i < 2 THEN p
    ELSE LET j == (s % i) + 1
         IN  Shuffle([p EXCEPT ![i] = p[j], ![j] = p[i]], i - 1, NextRandom(s))

\* RandomState(seed).permutation(n)
permutation(seed, n) == Shuffle([k \in 1..n |-> k], n, NextRandom(seed))

\* int(test_size * n): rounded down.
NTestFloor(n) == (n * TEST_SIZE_PERCENT) \div 100

\* ceil(test_size * n)
NTest(n) == (n * TEST_SIZE_PERCENT + 99) \div 100

NoSplit == [X_train |-> NoData, X_test |-> NoData, y_train |-> NoData, y_test |-> NoData]

\* The split of self.df as it is, all its columns in the features.
SplitOfWholeFrame(d, seed) ==
    LET n == NRows(d)
        n_test == NTest(n)
        n_train == n - n_test
        perm == permutation(seed, n)
        test == [k \in 1..n_test |-> perm[k]]
        train == [k \in 1..n_train |-> perm[n_test + k]]
        y == Project(d, <<TARGET_COL>>)
    IN  [X_train |-> ILoc(d, train), X_test |-> ILoc(d, test),
         y_train |-> ILoc(y, train), y_test |-> ILoc(y, test)]

\* sklearn's train_test_split(X, y, test_size=0.2, random_state=42,
\* shuffle=True): the first n_test positions of the permutation are the test
\* rows, the next n_train the train rows.
SplitOf(d, seed) ==
    LET n == NRows(d)
        n_test == NTest(n)
        n_train == n - n_test
        perm == permutation(seed, n)
        test == [k \in 1..n_test |-> perm[k]]
        train == [k \in 1..n_train |-> perm[n_test + k]]
        X == Project(d, FEAT_COLS)
        y == Project(d, <<TARGET_COL>>)
    IN  [X_train |-> ILoc(X, train), X_test |-> ILoc(X, test),
         y_train |-> ILoc(y, train), y_test |-> ILoc(y, test)]

\* It raises ValueError when the train set would be empty.
CanSplit(d) == NRows(d) > 0 /\ NRows(d) - NTest(NRows(d)) > 0

----------------------------------------------------------------------------
(* The tables the constructor may load *)

Row(url, price, size, rooms, floor, status, ptype, year, cond) ==
    [c \in Range(TableColumns) |->
        CASE c = "url" -> url
          [] c = "price" -> price
          [] c = "size" -> size
          [] c = "rooms" -> rooms
          [] c = "floor" -> floor
          [] c = "status" -> status
          [] c = "property_type" -> ptype
          [] c = "year_built" -> year
          [] c = "property_condition" -> cond]

BaseRow ==
    Row(Text(9), Float(100), Float(50), Float(2), Float(2),
        Text(2), Text(3), Text(4), Text(5))

\* Listings that differ from a complete one in price, in size or in floor.
PriceCells == {Float(100), NumStr(250000), PyInt(300), Text(1), NaN,
               Float(FILTER_PRICE), Float(FILTER_PRICE - 1)}
SizeCells == {Float(50), PyInt(40), NumStr(60), NaN, Float(FILTER_SIZE)}
FloorCells == {Float(2), Float(FILTER_FLOOR), BRAK_INFORMACJI, NaN}

ListingRows ==
    {[BaseRow EXCEPT !["price"] = x] : x \in PriceCells}
    \cup {[BaseRow EXCEPT !["size"] = x] : x \in SizeCells}
    \cup {[BaseRow EXCEPT !["floor"] = x] : x \in FloorCells}

\* Listings that differ from a complete one in what is missing.
RawRows ==
    {BaseRow,
     [BaseRow EXCEPT !["floor"] = NaN],
     [BaseRow EXCEPT !["floor"] = BRAK_INFORMACJI],
     [BaseRow EXCEPT !["status"] = NaN, !["year_built"] = NaN],
     [BaseRow EXCEPT !["property_type"] = NaN, !["property_condition"] = NaN],
     [BaseRow EXCEPT !["rooms"] = NaN],
     [BaseRow EXCEPT !["rooms"] = Float(1)],
     [BaseRow EXCEPT !["price"] = NaN],
     [BaseRow EXCEPT !["size"] = NaN],
     [BaseRow EXCEPT !["size"] = NaN, !["floor"] = NaN]}

\* Complete listings that differ in price and size only; one is too large.
PlainRows ==
    {BaseRow, [BaseRow EXCEPT !["price"] = Float(200), !["size"] = Float(FILTER_SIZE)]}

RECURSIVE SeqsUpTo(_, _)
SeqsUpTo(S, n) ==
    IF n = 0 THEN {<<>>}
    ELSE LET shorter == SeqsUpTo(S, n - 1)
         IN  shorter \cup {Append(q, x) : q \in shorter, x \in S}

Tables(S, n) == {Frame(TableColumns, rows) : rows \in SeqsUpTo(S, n)}

----------------------------------------------------------------------------
(* The calls *)

\* A private step has run on self.df: what it left, who still sees it, and
\* where control goes (an exception ends the run).
Applied(r, next) ==
    /\ df' = r.d
    /\ ext' = IF aliased THEN r.old ELSE ext
    /\ aliased' = (aliased /\ r.same)
    /\ pc' = IF r.ok THEN next ELSE "failed"

\* A call from outside starts.
Called(name, t) ==
    /\ pc = "idle"
    /\ op' = name
    /\ arg' = t
    /\ df0' = df
    /\ split0' = split
    /\ trace' = <<>>

\* The thresholds a filter is called with outside the pipeline.
Thresholds(limit) == {0, limit}

HandleMissing ==
    /\ Called("_handle_missing_and_duplicated_values", 0)
    /\ Applied(handle_missing_and_duplicated_values(df), "idle")
    /\ cleaned' = TRUE
    /\ split' = NoSplit
    /\ UNCHANGED flags

ProcessPrice ==
    \E t \in Thresholds(FILTER_PRICE) \cup {-1, 150} :
        /\ Called("_process_price", t)
        /\ Applied(process_price(df, t), "idle")
        /\ split' = NoSplit
        /\ UNCHANGED <<flags, cleaned>>

ProcessSize ==
    \E t \in Thresholds(FILTER_SIZE) :
        /\ Called("_process_size", t)
        /\ Applied(process_size(df, t), "idle")
        /\ split' = NoSplit
        /\ UNCHANGED <<flags, cleaned>>

ProcessFloor ==
    \E t \in Thresholds(FILTER_FLOOR) :
        /\ Called("_process_floor", t)
        /\ Applied(process_floor(df, t), "idle")
        /\ split' = NoSplit
        /\ UNCHANGED <<flags, cleaned>>

CastTypes ==
    /\ Called("_cast_types", 0)
    /\ Applied(cast_types(df), "idle")
    /\ split' = NoSplit
    /\ UNCHANGED <<flags, cleaned>>

Standardize ==
    /\ Called("_standardize", 0)
    /\ Applied(standardize(df), "idle")
    /\ split' = NoSplit
    /\ UNCHANGED <<flags, cleaned>>

SelectFeatures ==
    /\ Called("_select_features", 0)
    /\ Applied(select_features(df), "idle")
    /\ split' = NoSplit
    /\ UNCHANGED <<flags, cleaned>>

\* The pipeline casting whatever cast_types says.
FirstStepAlwaysCasts(cast) == "cast_types"

\* Where run_preprocessing_pipeline goes first.
FirstStep(cast) == IF cast THEN "cast_types" ELSE "process_price"

\* The pipeline skipping the scaling whatever standardize says.
AfterFloorNeverScales(std) == "select_features"

\* Where it goes after _process_floor.
AfterFloor(std) == IF std THEN "standardize" ELSE "select_features"

\* run_preprocessing_pipeline(cast_types, standardize) is entered.
RunPipeline ==
    \E c \in BOOLEAN, s \in BOOLEAN :
        /\ Called("run_preprocessing_pipeline", 0)
        /\ flags' = [cast_types |-> c, standardize |-> s]
        /\ pc' = FirstStep(c)
        /\ split' = NoSplit
        /\ UNCHANGED <<df, ext, aliased, cleaned>>

\* A step of the running pipeline, called with threshold t (0: it takes none).
Step(name, t, r, next) ==
    /\ pc = name
    /\ Applied(r, next)
    /\ trace' = Append(trace, [step |-> name, t |-> t])
    /\ UNCHANGED <<flags, op, arg, df0, split, split0, cleaned>>

PipelineCastTypes == Step("cast_types", 0, cast_types(df), "process_price")

PipelineProcessPrice ==
    Step("process_price", FILTER_PRICE, process_price(df, FILTER_PRICE), "process_size")

PipelineProcessSize ==
    Step("process_size", FILTER_SIZE, process_size(df, FILTER_SIZE), "process_floor")

PipelineProcessFloor ==
    Step("process_floor", FILTER_FLOOR, process_floor(df, FILTER_FLOOR),
         AfterFloor(flags.standardize))

PipelineStandardize == Step("standardize", 0, standardize(df), "select_features")

PipelineSelectFeatures == Step("select_features", 0, select_features(df), "idle")

\* train_test_split shuffling self.df itself before it cuts it.
TrainTestSplitShuffling ==
    /\ Called("train_test_split", 0)
    /\ IF CanSplit(df)
       THEN /\ df' = ILoc(df, permutation(RANDOM_STATE, NRows(df)))
            /\ split' = SplitOf(df, RANDOM_STATE)
            /\ pc' = "idle"
       ELSE /\ df' = df
            /\ split' = NoSplit
            /\ pc' = "failed"
    /\ UNCHANGED <<ext, aliased, flags, cleaned>>

TrainTestSplit ==
    /\ Called("train_test_split", 0)
    /\ IF CanSplit(df)
       THEN /\ split' = SplitOf(df, RANDOM_STATE)
            /\ pc' = "idle"
       ELSE /\ split' = NoSplit
            /\ pc' = "failed"
    /\ UNCHANGED <<df, ext, aliased, flags, cleaned>>

\* get(): the caller now holds self.df itself.
Get ==
    /\ Called("get", 0)
    /\ ext' = df
    /\ aliased' = TRUE
    /\ split' = NoSplit
    /\ UNCHANGED <<df, pc, flags, cleaned>>

\* The caller builds a frame of its own (data to predict on).
NewFrame ==
    /\ pc = "idle"
    /\ ext' \in {Frame(TableColumns, <<r>>) :
                   r \in {[BaseRow EXCEPT !["size"] = x] : x \in SizeCells}}
    /\ aliased' = FALSE
    /\ UNCHANGED <<df, pc, flags, trace, op, arg, df0, split, split0, cleaned>>

\* static_cast_types(ext): it assigns into the frame it is given and returns
\* that frame.
StaticCastTypes ==
    /\ Called("static_cast_types", 0)
    /\ ext # NoData
    /\ LET r == static_cast_types(ext)
       IN  /\ ext' = r.d
           /\ df' = IF aliased THEN r.d ELSE df
           /\ pc' = IF r.ok THEN "idle" ELSE "failed"
    /\ split' = NoSplit
    /\ UNCHANGED <<aliased, flags, cleaned>>

----------------------------------------------------------------------------
(* Specifications *)

Loaded(tables) ==
    /\ df \in tables
    /\ ext = NoData
    /\ aliased = FALSE
    /\ pc = "idle"
    /\ flags = [cast_types |-> TRUE, standardize |-> TRUE]
    /\ trace = <<>>
    /\ op = "__init__"
    /\ arg = 0
    /\ df0 = df
    /\ split = NoSplit
    /\ split0 = NoSplit
    /\ cleaned = FALSE

\* The pipeline on a loaded table, with or without the cleaning before it.
Init == Loaded(Tables(ListingRows, MaxRows))

Next ==
    \/ HandleMissing
    \/ RunPipeline
    \/ PipelineCastTypes
    \/ PipelineProcessPrice
    \/ PipelineProcessSize
    \/ PipelineProcessFloor
    \/ PipelineStandardize
    \/ PipelineSelectFeatures

Spec == Init /\ [][Next]_vars

\* The steps called one by one, in any order.
NextSteps ==
    \/ ProcessPrice
    \/ ProcessSize
    \/ ProcessFloor
    \/ CastTypes
    \/ Standardize
    \/ SelectFeatures

SpecSteps == Init /\ [][NextSteps]_vars

\* The cleaning of a raw table.
InitClean == Loaded(Tables(RawRows, MaxCleanRows))

NextClean == HandleMissing \/ CastTypes

SpecClean == InitClean /\ [][NextClean]_vars

\* The split of a table, before and after the feature selection.
InitSplit == Loaded(Tables(PlainRows, MaxSplitRows))

NextSplit == TrainTestSplit \/ SelectFeatures \/ ProcessSize

SpecSplit == InitSplit /\ [][NextSplit]_vars

\* The frames the caller holds.
NextAlias == Get \/ NewFrame \/ StaticCastTypes \/ CastTypes \/ ProcessSize

SpecAlias == Init /\ [][NextAlias]_vars

----------------------------------------------------------------------------
(* Properties *)

Labels(d) == Range(d.index)

\* The position in d of the row labelled l.
PosOf(d, l) == CHOOSE i \in 1..NRows(d) : d.index[i] = l

\* The row of d labelled l.
RowOf(d, l) == d.rows[PosOf(d, l)]

\* The labels of d are in the order they have in d0.
InOrderOf(d, d0) ==
    /\ Labels(d) \subseteq Labels(d0)
    /\ \A i, j \in 1..NRows(d) :
          i < j => PosOf(d0, d.index[i]) < PosOf(d0, d.index[j])

PipelineDone == op = "run_preprocessing_pipeline" /\ pc = "idle"

ExpectedSteps(c, s) ==
    (IF c THEN <<[step |-> "cast_types", t |-> 0]>> ELSE <<>>)
    \o <<[step |-> "process_price", t |-> 17500000],
          [step |-> "process_size", t |-> 1000],
          [step |-> "process_floor", t |-> 30]>>
    \o (IF s THEN <<[step |-> "standardize", t |-> 0]>> ELSE <<>>)
    \o <<[step |-> "select_features", t |-> 0]>>

\* C1: whatever the flags, run_preprocessing_pipeline makes its steps in the
\* order cast types (if cast_types), process_price(17500000),
\* process_size(1000), process_floor(30), standardize (if standardize),
\* select_features, each once and no other: at every moment the steps made
\* are a prefix of that list, the step it is about to make is the next of
\* the list, and on return the list is complete.
C1_PipelineOrder ==
    op = "run_preprocessing_pipeline" =>
        LET e == ExpectedSteps(flags.cast_types, flags.standardize)
        IN  /\ Len(trace) <= Len(e)
            /\ \A i \in 1..Len(trace) : trace[i] = e[i]
            /\ pc = "idle" => trace = e
            /\ pc \notin {"idle", "failed"} =>
                  Len(trace) < Len(e) /\ e[Len(trace) + 1].step = pc

C1_Witness ==
    /\ PipelineDone
    /\ flags.cast_types /\ flags.standardize
    /\ Len(trace) = 6
    /\ NRows(df) > 0
    /\ NRows(df) < NRows(df0)

\* C2: when run_preprocessing_pipeline has returned, whatever its flags and
\* without the cleaning step ever called, no row of self.df has a missing
\* price or a missing size.
C2_NoMissingPriceOrSize ==
    (PipelineDone /\ ~cleaned) =>
        \A i \in 1..NRows(df) :
            df.rows[i]["price"].kind # "nan" /\ df.rows[i]["size"].kind # "nan"

C2_Witness ==
    /\ PipelineDone /\ ~cleaned
    /\ NRows(df) > 0
    /\ \E j \in 1..NRows(df0) : df0.rows[j]["size"].kind = "nan"

Parseable(x) == x.kind \in {"float", "int", "numstr"}

Imputed(r) ==
    [c \in DOMAIN r |->
        IF r[c].kind = "nan" /\ c = "rooms" THEN Float(1)
        ELSE IF r[c].kind = "nan"
                /\ c \in {"floor", "status", "property_type", "year_built",
                           "property_condition"}
             THEN Text(0)
        ELSE IF r[c].kind = "int" THEN Float(r[c].n)
        ELSE r[c]]

Complete(r) == r["price"].kind # "nan" /\ r["size"].kind # "nan"

\* C4: when _handle_missing_and_duplicated_values has returned, no imputed
\* column has a missing cell, no row has a missing price or size, no two
\* rows are equal on all columns, each row is the imputed form of the row it
\* was, and there are as many rows as there are distinct imputed rows with
\* price and size present; so a table in which one row repeats another, one
\* row has no size and the rest are complete and distinct loses two rows.
C4_HandleMissing ==
    (op = "_handle_missing_and_duplicated_values" /\ pc = "idle") =>
        /\ InOrderOf(df, df0)
        /\ \A i \in 1..NRows(df) :
              /\ Complete(df.rows[i])
              /\ \A c \in {"floor", "status", "property_type", "rooms",
                            "year_built", "property_condition"} :
                    df.rows[i][c].kind # "nan"
              /\ Imputed(df.rows[i]) = Imputed(RowOf(df0, df.index[i]))
        /\ \A i, j \in 1..NRows(df) :
              i # j => Imputed(df.rows[i]) # Imputed(df.rows[j])
        /\ NRows(df) =
              Cardinality({Imputed(df0.rows[j]) :
                              j \in {k \in 1..NRows(df0) : Complete(df0.rows[k])}})
        /\ ( /\ Cardinality({Imputed(df0.rows[j]) : j \in 1..NRows(df0)})
                   = NRows(df0) - 1
             /\ Cardinality({j \in 1..NRows(df0) : ~Complete(df0.rows[j])}) = 1
             /\ \A j, k \in 1..NRows(df0) :
                    (j # k /\ ~Complete(df0.rows[j])) =>
                        Imputed(df0.rows[j]) # Imputed(df0.rows[k]) )
            => NRows(df) = NRows(df0) - 2

C4_Witness ==
    /\ op = "_handle_missing_and_duplicated_values" /\ pc = "idle"
    /\ NRows(df0) = 3
    /\ NRows(df) = 1
    /\ \E j, k \in 1..NRows(df0) : j # k /\ df0.rows[j] = df0.rows[k]
    /\ Cardinality({j \in 1..NRows(df0) : df0.rows[j]["size"].kind = "nan"}) = 1
    /\ \A j \in 1..NRows(df0) : df0.rows[j]["price"].kind # "nan"

HasOtherColumns(d) ==
    \E c \in Range(d.columns) : c \notin Range(FEAT_COLS) \cup {TARGET_COL}

\* C5: when _select_features has returned, whatever columns self.df had, its
\* columns are those of FEAT_COLS in their order and then TARGET_COL, and
\* its rows and their cells in these columns are what they were.
C5_SelectFeatures ==
    op = "_select_features" =>
        /\ pc = "idle"
        /\ df.columns = FEAT_COLS \o <<TARGET_COL>>
        /\ df.index = df0.index
        /\ \A i \in 1..NRows(df) :
              /\ DOMAIN df.rows[i] = Range(FEAT_COLS) \cup {TARGET_COL}
              /\ \A c \in DOMAIN df.rows[i] : df.rows[i][c] = df0.rows[i][c]

C5_Witness ==
    /\ op = "_select_features"
    /\ NRows(df) > 0
    /\ HasOtherColumns(df0)

\* C6: a train_test_split that follows a train_test_split with no call in
\* between returns what that one returned, and neither changes self.df.
C6_SplitRepeats ==
    op = "train_test_split" =>
        /\ df = df0
        /\ (pc = "idle" /\ split0 # NoSplit) => split = split0

C6_Witness ==
    /\ op = "train_test_split" /\ pc = "idle"
    /\ split0 # NoSplit
    /\ NRows(split.X_test) >= 2

\* C7 as the claim states it: a train_test_split on a frame that still has
\* columns outside FEAT_COLS and TARGET_COL returns, and what it returns has
\* the wrong columns.
C7_Original ==
    (op = "train_test_split" /\ pc = "idle" /\ HasOtherColumns(df)) =>
        \/ split.X_train.columns # FEAT_COLS
        \/ split.X_test.columns # FEAT_COLS
        \/ split.y_train.columns # <<TARGET_COL>>
        \/ split.y_test.columns # <<TARGET_COL>>

\* C7 amended: a train_test_split on a frame of two rows or more that still
\* has columns outside FEAT_COLS and TARGET_COL returns, and what it returns
\* has the right columns: the features carry FEAT_COLS only and the targets
\* TARGET_COL only.
C7_SplitSelectsColumns ==
    (op = "train_test_split" /\ HasOtherColumns(df) /\ NRows(df) >= 2) =>
        /\ pc = "idle"
        /\ \A X \in {split.X_train, split.X_test} :
              /\ X.columns = FEAT_COLS
              /\ \A i \in 1..NRows(X) : DOMAIN X.rows[i] = Range(FEAT_COLS)
        /\ \A y \in {split.y_train, split.y_test} :
              /\ y.columns = <<TARGET_COL>>
              /\ \A i \in 1..NRows(y) : DOMAIN y.rows[i] = {TARGET_COL}

C7_Witness ==
    /\ op = "train_test_split" /\ pc = "idle"
    /\ HasOtherColumns(df)
    /\ NRows(split.X_train) >= 2

\* C8 as the claim states it: static_cast_types leaves self.df as it was,
\* whatever frame it is given, the one get() returned too.
C8_Original == op = "static_cast_types" => df = df0

\* C9 as the claim states it: run_preprocessing_pipeline(False, False)
\* leaves the columns FEAT_COLS and TARGET_COL, and every cell of every row
\* left is the cell it was, price included.
C9_Original ==
    (PipelineDone /\ ~flags.cast_types /\ ~flags.standardize) =>
        /\ df.columns = FEAT_COLS \o <<TARGET_COL>>
        /\ InOrderOf(df, df0)
        /\ \A i \in 1..NRows(df) :
              \A c \in Range(df.columns) :
                  df.rows[i][c] = RowOf(df0, df.index[i])[c]

\* C9 amended: run_preprocessing_pipeline(False, False) leaves the columns
\* FEAT_COLS and TARGET_COL, and every cell of every row left is the cell it
\* was, except price, which is the float of the number it was.
C9_OnlyPriceIsCast ==
    (PipelineDone /\ ~flags.cast_types /\ ~flags.standardize) =>
        /\ df.columns = FEAT_COLS \o <<TARGET_COL>>
        /\ InOrderOf(df, df0)
        /\ \A i \in 1..NRows(df) :
              LET before == RowOf(df0, df.index[i])
              IN  /\ \A c \in Range(df.columns) \ {"price"} :
                        df.rows[i][c] = before[c]
                  /\ df.rows[i]["price"].kind = "float"
                  /\ Parseable(before["price"])
                  /\ df.rows[i]["price"].n = before["price"].n

C9_Witness ==
    /\ PipelineDone /\ ~flags.cast_types /\ ~flags.standardize
    /\ \E i \in 1..NRows(df) :
          RowOf(df0, df.index[i])["price"].kind = "numstr"
    /\ \E i \in 1..NRows(df) : df.rows[i]["size"].kind = "int"

\* The least k with 5 k >= n.
CeilFifth(n) == CHOOSE k \in 0..n : 5 * k >= n /\ 5 * (k - 1) < n

\* C10: on a frame of n >= 2 rows train_test_split returns; the test part has
\* ceil(n / 5) rows and the train part the other rows, every row of the
\* frame being in exactly one of the two; features and targets of a part
\* have the same rows in the same order; the features carry the FEAT_COLS
\* cells of their rows and the targets the TARGET_COL cell.
C10_SplitPartitions ==
    (op = "train_test_split" /\ NRows(df) >= 2) =>
        /\ pc = "idle"
        /\ NRows(split.X_test) = CeilFifth(NRows(df))
        /\ NRows(split.X_train) = NRows(df) - CeilFifth(NRows(df))
        /\ Labels(split.X_train) \cap Labels(split.X_test) = {}
        /\ Labels(split.X_train) \cup Labels(split.X_test) = Labels(df)
        /\ split.y_train.index = split.X_train.index
        /\ split.y_test.index = split.X_test.index
        /\ \A X \in {split.X_train, split.X_test} :
              /\ X.columns = FEAT_COLS
              /\ \A i \in 1..NRows(X) :
                    X.rows[i] = [c \in Range(FEAT_COLS) |-> RowOf(df, X.index[i])[c]]
        /\ \A y \in {split.y_train, split.y_test} :
              /\ y.columns = <<TARGET_COL>>
              /\ \A i \in 1..NRows(y) :
                    y.rows[i] = [c \in {TARGET_COL} |-> RowOf(df, y.index[i])[c]]

C10_Witness ==
    /\ op = "train_test_split" /\ pc = "idle"
    /\ NRows(df) = 6
    /\ NRows(split.X_test) = 2
    /\ NRows(split.X_train) = 4

====
